---- MODULE Spec2Model ----
(***************************************************************************)
(* A model of reachability_viz.py: the parser, the edge classifier, the    *)
(* adjacency builder, the depth-bounded BFS, the bidirectional merger, the *)
(* level partitioner, the DOT generator, the page export, the resolution   *)
(* of the start node and main, which runs them in turn.  Pure functions of *)
(* the program are operators computed the way the code computes them; each *)
(* specification draws the inputs of one part of the program and applies   *)
(* the functions to them.                                                  *)
(***************************************************************************)
EXTENDS Integers, Sequences, FiniteSets, TLC

VARIABLES
    pc,             \* position in the run that the specification models
    edges,          \* list of edge records, as parse_source_text returns it
    start,          \* bfs_levels: start
    depth,          \* bfs_levels: depth, as passed by the caller
    direction,      \* bfs_levels: direction
    out_adj,        \* build_adjacency: source -> set of destinations
    in_adj,         \* build_adjacency: destination -> set of sources
    levels,         \* bfs_levels: list of sets of node ids
    visited,        \* bfs_levels: set of node ids (included_nodes in main)
    merged,         \* merge_bidirectional_edges: the returned list
    max_per_level,  \* split_levels: the cap
    new_levels,     \* split_levels: list of bands
    node_levels,    \* split_levels: node -> band index
    raw_label,      \* extract_status: the argument
    status,         \* extract_status: the result
    source_text,    \* parse_source_text: the text, as its list of declarations
    nodes,          \* parse_source_text: node id -> label
    original_nodes, \* parse_source_text: node id -> label, the second mapping
    args,           \* main: the command-line options, each set when first read
    dot_text,       \* main: the value returned by generate_dot
    files,          \* the output files: what each holds, or Absent
    log,            \* the messages printed so far, in order
    renderer,       \* what became of the call of render_with_graphviz
    bfs_frontier,   \* bfs_levels: frontier, while its loop runs
    rounds          \* bfs_levels: iterations of `for _ in range(depth)` begun

\* The variables of main that the specifications of single functions leave alone.
mainVars == <<source_text, nodes, original_nodes, args, dot_text, files, log, renderer>>

\* The variables of the loop of bfs_levels, which only the specification that
\* runs the loop round by round uses.
loopVars == <<bfs_frontier, rounds>>

vars == <<pc, edges, start, depth, direction, out_adj, in_adj, levels, visited,
          merged, max_per_level, new_levels, node_levels, raw_label, status,
          source_text, nodes, original_nodes, args, dot_text, files, log,
          renderer, bfs_frontier, rounds>>

----------------------------------------------------------------------------
(* Bounds of the model.                                                    *)

\* Node ids of the graphs that are enumerated.  8 is the smallest id that a
\* CPython set does not iterate in ascending order: {1, 8} is listed 8, 1.
Nodes == {1, 2, 3, 8}

\* Most edges of a graph that is traversed.
MaxEdges == 3

\* Largest hop budget; the smallest one drawn is -1.
MaxDepth == 3

\* Largest band cap drawn for split_levels.
MaxCap == 2

\* Longest raw label, in characters.
MaxLabelLen == 4

\* Node ids of the edge lists given to the merger.
MergeNodes == {0, 1, 2}

\* Longest edge list given to the merger.
MaxListLen == 3

Depths == -1 .. MaxDepth
Directions == {"out", "in", "both"}
Caps == 1 .. MaxCap

\* A value for variables that a specification does not use.
Unused == "unused"

\* The variables of main in a specification that does not run main.
MainUnused ==
    /\ source_text = Unused /\ nodes = Unused /\ original_nodes = Unused
    /\ args = Unused /\ dot_text = Unused /\ files = Unused
    /\ log = Unused /\ renderer = Unused

\* The loop variables in a specification that runs bfs_levels in one step.
LoopUnused == bfs_frontier = Unused /\ rounds = Unused

EmptyMap == [x \in {} |-> {}]

----------------------------------------------------------------------------
(* Helpers for Python values.                                              *)

\* dict.get(u, set()) on an adjacency map
Get(adj, u) == IF u \in DOMAIN adj THEN adj[u] ELSE {}

\* adj[k].add(v) on a defaultdict(set)
AdjAdd(adj, k, v) ==
    [x \in DOMAIN adj \cup {k} |-> IF x = k THEN Get(adj, k) \cup {v} ELSE adj[x]]

Min(a, b) == IF a < b THEN a ELSE b
Max(a, b) == IF a > b THEN a ELSE b

RECURSIVE SeqsUpTo(_, _)
SeqsUpTo(S, n) ==
    IF n = 0 THEN {<<>>}
    ELSE LET shorter == SeqsUpTo(S, n - 1)
         IN  shorter \cup {Append(s, x) : s \in {t \in shorter : Len(t) = n - 1}, x \in S}

----------------------------------------------------------------------------
(* Strings are sequences of one-character strings.                         *)

\* The characters labels are drawn from: both cases of the two letters the
\* classifier looks for, the letter of its explicit Enabled branch, a letter
\* it does not know, a blank and the segment delimiter.
Chars == {"S", "s", "D", "d", "E", "x", " ", "|"}

Labels == SeqsUpTo(Chars, MaxLabelLen)

IsSpace(c) == c = " "

\* str.upper(), one character
UpperChar(c) ==
    CASE c = "s" -> "S"
      [] c = "d" -> "D"
      [] c = "e" -> "E"
      [] c = "x" -> "X"
      [] OTHER -> c

upper(s) == [i \in 1 .. Len(s) |-> UpperChar(s[i])]

RECURSIVE lstrip(_)
lstrip(s) == IF s # <<>> /\ IsSpace(Head(s)) THEN lstrip(Tail(s)) ELSE s

RECURSIVE rstrip(_)
rstrip(s) ==
    IF s # <<>> /\ IsSpace(s[Len(s)]) THEN rstrip(SubSeq(s, 1, Len(s) - 1)) ELSE s

\* str.strip()
strip(s) == rstrip(lstrip(s))

\* str.split('|'): the list of segments, always at least one
RECURSIVE split(_, _)
split(s, sep) ==
    IF \A i \in 1 .. Len(s) : s[i] # sep THEN <<s>>
    ELSE LET k == CHOOSE i \in 1 .. Len(s) :
                      s[i] = sep /\ \A j \in 1 .. (i - 1) : s[j] # sep
         IN  <<SubSeq(s, 1, k - 1)>> \o split(SubSeq(s, k + 1, Len(s)), sep)

\* str.startswith(c) for a one-character prefix
startswith(s, c) == s # <<>> /\ s[1] = c

\* The comprehension [p.strip() for p in raw_label.split('|')]
StrippedParts(raw) ==
    LET parts == split(raw, "|") IN [i \in 1 .. Len(parts) |-> strip(parts[i])]

\* A classifier that matches the first segment without upper-casing it.
extract_status_case_sensitive(raw) ==
    IF raw = <<>> THEN "E"
    ELSE LET parts == StrippedParts(raw)
             first == IF parts # <<>> THEN parts[1] ELSE <<>>
         IN  IF startswith(first, "S") THEN "S"
             ELSE IF startswith(first, "D") THEN "D"
             ELSE "E"

extract_status(raw) ==
    IF raw = <<>> THEN "E"
    ELSE LET parts == StrippedParts(raw)
             first == IF parts # <<>> THEN upper(parts[1]) ELSE <<>>
         IN  IF startswith(first, "S") THEN "S"
             ELSE IF startswith(first, "D") THEN "D"
             ELSE IF startswith(first, "E") THEN "E"
             ELSE "E"

\* One match of EDGE_RE turned into an edge record by parse_source_text.
ParsedEdge(s, d, text) ==
    LET raw == strip(text)
    IN  [src |-> s, dst |-> d, raw_label |-> raw, status |-> extract_status(raw)]

----------------------------------------------------------------------------
(* build_adjacency and bfs_levels.                                         *)

RECURSIVE build_adjacency_from(_, _, _, _)
build_adjacency_from(es, i, out, in) ==
    IF i > Len(es) THEN [out_adj |-> out, in_adj |-> in]
    ELSE build_adjacency_from(es, i + 1,
                              AdjAdd(out, es[i].src, es[i].dst),
                              AdjAdd(in, es[i].dst, es[i].src))

\* Adjacency maps of the Enabled edges alone.
build_adjacency_enabled(es) ==
    build_adjacency_from(SelectSeq(es, LAMBDA e : e.status = "E"), 1, EmptyMap, EmptyMap)

build_adjacency(es) == build_adjacency_from(es, 1, EmptyMap, EmptyMap)

\* A neighbour function that follows outgoing edges whatever the direction.
neighbors_out_only(u, out, in, dir) == Get(out, u)

\* A neighbour function that takes "both" for "in".
neighbors_both_as_in(u, out, in, dir) ==
    IF dir = "out" THEN Get(out, u) ELSE Get(in, u)

\* The closure neighbors(u) of bfs_levels.
neighbors(u, out, in, dir) ==
    IF dir = "out" THEN Get(out, u)
    ELSE IF dir = "in" THEN Get(in, u)
    ELSE Get(out, u) \cup Get(in, u)

\* A round that does not look at visited.
Discovered_unchecked(frontier, vis, out, in, dir) ==
    UNION {neighbors(u, out, in, dir) : u \in frontier}

\* One pass of `for u in frontier: for v in neighbors(u): if v not in visited`:
\* the nodes the round adds to visited, which are the round's nxt.
Discovered(frontier, vis, out, in, dir) ==
    {v \in UNION {neighbors(u, out, in, dir) : u \in frontier} : v \notin vis}

\* `for _ in range(depth)`, with `remaining` iterations left.
RECURSIVE bfs_rounds(_, _, _, _, _, _, _)
bfs_rounds(remaining, vis, lvls, frontier, out, in, dir) ==
    IF remaining <= 0 THEN [levels |-> lvls, visited |-> vis]
    ELSE LET nxt == Discovered(frontier, vis, out, in, dir)
         IN  IF nxt = {} THEN [levels |-> lvls, visited |-> vis]
             ELSE bfs_rounds(remaining - 1, vis \cup nxt, Append(lvls, nxt), nxt,
                             out, in, dir)

\* A traversal that runs one round more than the hop budget.
bfs_levels_extra_round(s, d, out, in, dir) ==
    LET clamped == IF d < 0 THEN 0 ELSE d
    IN  bfs_rounds(clamped + 1, {s}, <<{s}>>, {s}, out, in, dir)

\* A traversal that takes a negative hop budget for its absolute value.
bfs_levels_abs_depth(s, d, out, in, dir) ==
    LET clamped == IF d < 0 THEN 0 - d ELSE d
    IN  bfs_rounds(clamped, {s}, <<{s}>>, {s}, out, in, dir)

bfs_levels(s, d, out, in, dir) ==
    LET clamped == IF d < 0 THEN 0 ELSE d
    IN  bfs_rounds(clamped, {s}, <<{s}>>, {s}, out, in, dir)

----------------------------------------------------------------------------
(* merge_bidirectional_edges.                                              *)

\* A key that keeps the direction of the edge.
MergeKey_directed(s, d) == <<s, d>>

\* key = tuple(sorted([s, d]))
MergeKey(s, d) == <<Min(s, d), Max(s, d)>>

\* An entry that is stored in the orientation of its key.
MergeEntry_sorted_ends(e) ==
    [src |-> Min(e.src, e.dst), dst |-> Max(e.src, e.dst), raw_label |-> e.raw_label,
     status |-> e.status, bidirectional |-> FALSE]

\* entry = e.copy(); entry["bidirectional"] = False
MergeEntry(e) ==
    [src |-> e.src, dst |-> e.dst, raw_label |-> e.raw_label, status |-> e.status,
     bidirectional |-> FALSE]

\* `for e in edges` from the i-th edge on.  seen maps a key to the position in
\* merged of the entry it stands for: in the code seen[key] is that very dict.
RECURSIVE merge_from(_, _, _, _)
merge_from(es, i, mrg, seen) ==
    IF i > Len(es) THEN mrg
    ELSE LET key == MergeKey(es[i].src, es[i].dst)
         IN  IF key \in DOMAIN seen
             THEN merge_from(es, i + 1,
                             [mrg EXCEPT ![seen[key]].bidirectional = TRUE], seen)
             ELSE merge_from(es, i + 1, Append(mrg, MergeEntry(es[i])),
                             [k \in DOMAIN seen \cup {key} |->
                                 IF k = key THEN Len(mrg) + 1 ELSE seen[k]])

merge_bidirectional_edges(es) == merge_from(es, 1, <<>>, [k \in {} |-> 0])

----------------------------------------------------------------------------
(* split_levels (the nested function of main and of export_html; the two   *)
(* bodies are the same).                                                   *)

Range(f) == {f[i] : i \in DOMAIN f}

\* The slots of the hash table of a CPython set that got its n members one at
\* a time: eight, and four times the members, rounded up to a power of two,
\* whenever an addition leaves the table three fifths full.
TableSize(n) == IF n <= 4 THEN 8 ELSE IF n <= 18 THEN 32 ELSE 128

\* The slot that holds the int n: an int hashes to itself.  The members of
\* every set of the model have different slots, so none is moved to another.
SetSlot(n, size) == n % size

RECURSIVE list_by_slot(_, _)
list_by_slot(S, size) ==
    IF S = {} THEN <<>>
    ELSE LET m == CHOOSE x \in S : \A y \in S : SetSlot(x, size) <= SetSlot(y, size)
         IN  <<m>> \o list_by_slot(S \ {m}, size)

\* list(group) for a set: CPython iterates a set slot by slot.
list_of_set(S) == list_by_slot(S, TableSize(Cardinality(S)))

\* group[i:i+n], i counted from 0
Slice(group, i, n) == SubSeq(group, i + 1, Min(i + n, Len(group)))

\* `for nid in sub_group: node_levels[nid] = level_idx`
Assign(map, keys, value) ==
    [n \in DOMAIN map \cup keys |-> IF n \in keys THEN value ELSE map[n]]

\* A chunking whose slices run one element too far.
RECURSIVE split_group_long_slice(_, _, _, _)
split_group_long_slice(group, i, cap, acc) ==
    IF i >= Len(group) THEN acc
    ELSE LET sub_group == Range(Slice(group, i, cap + 1))
         IN  split_group_long_slice(group, i + cap, cap,
                 [new_levels  |-> Append(acc.new_levels, sub_group),
                  node_levels |-> Assign(acc.node_levels, sub_group, acc.level_idx),
                  level_idx   |-> acc.level_idx + 1])

\* A chunking that advances the band index once per level, not once per band.
RECURSIVE split_group_index_per_level(_, _, _, _)
split_group_index_per_level(group, i, cap, acc) ==
    IF i >= Len(group) THEN [acc EXCEPT !.level_idx = @ + 1]
    ELSE LET sub_group == Range(Slice(group, i, cap))
         IN  split_group_index_per_level(group, i + cap, cap,
                 [new_levels  |-> Append(acc.new_levels, sub_group),
                  node_levels |-> Assign(acc.node_levels, sub_group, acc.level_idx),
                  level_idx   |-> acc.level_idx])

\* `for i in range(0, len(group), max_per_level)` from offset i on
RECURSIVE split_group(_, _, _, _)
split_group(group, i, cap, acc) ==
    IF i >= Len(group) THEN acc
    ELSE LET sub_group == Range(Slice(group, i, cap))
         IN  split_group(group, i + cap, cap,
                 [new_levels  |-> Append(acc.new_levels, sub_group),
                  node_levels |-> Assign(acc.node_levels, sub_group, acc.level_idx),
                  level_idx   |-> acc.level_idx + 1])

\* `for group in levels` from the g-th group on
RECURSIVE split_levels_from(_, _, _, _)
split_levels_from(lvls, g, cap, acc) ==
    IF g > Len(lvls) THEN acc
    ELSE split_levels_from(lvls, g + 1, cap,
                           split_group(list_of_set(lvls[g]), 0, cap, acc))

\* A partition that numbers its bands from 1.
split_levels_from_one(lvls, cap) ==
    LET r == split_levels_from(lvls, 1, cap,
                 [new_levels |-> <<>>, node_levels |-> [n \in {} |-> 0], level_idx |-> 1])
    IN  [new_levels |-> r.new_levels, node_levels |-> r.node_levels]

split_levels(lvls, cap) ==
    LET r == split_levels_from(lvls, 1, cap,
                 [new_levels |-> <<>>, node_levels |-> [n \in {} |-> 0], level_idx |-> 0])
    IN  [new_levels |-> r.new_levels, node_levels |-> r.node_levels]

----------------------------------------------------------------------------
(* parse_source_text.  The source text is the list of its declarations,    *)
(* each one either a node declaration  id [label="..."]  or an edge        *)
(* declaration  src -> dst [label="..."]  with other text between them.    *)

\* A node declaration keeps its id in both src and dst.
NodeDecl(id, label) == [kind |-> "node", src |-> id, dst |-> id, label |-> label]

EdgeDecl(s, d, label) == [kind |-> "edge", src |-> s, dst |-> d, label |-> label]

\* NODE_RE.finditer(source_text), as the list of (group 1, group 2).  The
\* pattern (\d+)\s*\[label="([^"]*)"\] matches a node declaration; it also
\* matches the  dst [label="..."]  that ends an edge declaration.
NODE_RE(txt) == [i \in 1 .. Len(txt) |-> [id |-> txt[i].dst, label |-> txt[i].label]]

\* EDGE_RE.finditer(source_text): the edge declarations.
EDGE_RE(txt) == SelectSeq(txt, LAMBDA decl : decl.kind = "edge")

\* A dict with str values and no key.
NoLabels == [x \in {} |-> <<>>]

\* d[k] = v on a dict that is kept as the list of its items: a new key goes to
\* the end, a known key keeps its place.
SetItem(items, k, v) ==
    IF \E i \in 1 .. Len(items) : items[i].id = k
    THEN [i \in 1 .. Len(items) |->
             IF items[i].id = k THEN [id |-> k, label |-> v] ELSE items[i]]
    ELSE Append(items, [id |-> k, label |-> v])

\* The first loop of parse_source_text from the i-th match on.  nodes is read
\* by key only and is a function; original_nodes is read in insertion order by
\* resolve_start_node and is the list of its items.
RECURSIVE parse_nodes_from(_, _, _, _)
parse_nodes_from(ms, i, nds, orig) ==
    IF i > Len(ms) THEN [nodes |-> nds, original_nodes |-> orig]
    ELSE LET nid   == ms[i].id
             label == strip(ms[i].label)
         IN  IF nid \notin DOMAIN nds \/ nds[nid] = <<>>
             THEN parse_nodes_from(ms, i + 1,
                      [n \in DOMAIN nds \cup {nid} |-> IF n = nid THEN label ELSE nds[n]],
                      SetItem(orig, nid, label))
             ELSE parse_nodes_from(ms, i + 1, nds, orig)

parse_source_text(txt) ==
    LET r  == parse_nodes_from(NODE_RE(txt), 1, NoLabels, <<>>)
        ms == EDGE_RE(txt)
    IN  [nodes          |-> r.nodes,
         edges          |-> [i \in 1 .. Len(ms) |->
                                ParsedEdge(ms[i].src, ms[i].dst, ms[i].label)],
         original_nodes |-> r.original_nodes]

----------------------------------------------------------------------------
(* resolve_start_node.                                                     *)

Digits == <<"0", "1", "2", "3", "4", "5", "6", "7", "8", "9">>

IsDigit(c) == \E i \in 1 .. 10 : Digits[i] = c

DigitValue(c) == (CHOOSE i \in 1 .. 10 : Digits[i] = c) - 1

\* str(n) for n >= 0
RECURSIVE str(_)
str(n) == IF n < 10 THEN <<Digits[n + 1]>> ELSE str(n \div 10) \o <<Digits[(n % 10) + 1]>>

\* The text without the sign that int() accepts in front of the digits.
Unsigned(s) == IF s # <<>> /\ s[1] \in {"+", "-"} THEN Tail(s) ELSE s

\* int(s) does not raise ValueError: blanks around, one optional sign, digits.
IsIntText(s) ==
    LET body == Unsigned(strip(s))
    IN  body # <<>> /\ \A i \in 1 .. Len(body) : IsDigit(body[i])

RECURSIVE DigitsValue(_)
DigitsValue(ds) ==
    IF ds = <<>> THEN 0
    ELSE 10 * DigitsValue(SubSeq(ds, 1, Len(ds) - 1)) + DigitValue(ds[Len(ds)])

\* int(s), for a text that IsIntText
int(s) ==
    LET t == strip(s)
    IN  IF t[1] = "-" THEN 0 - DigitsValue(Unsigned(t)) ELSE DigitsValue(Unsigned(t))

\* str.lower(), one character
LowerChar(c) ==
    CASE c = "S" -> "s"
      [] c = "D" -> "d"
      [] c = "E" -> "e"
      [] c = "A" -> "a"
      [] c = "B" -> "b"
      [] OTHER -> c

lower(s) == [i \in 1 .. Len(s) |-> LowerChar(s[i])]

\* label.strip().lower() == start_value.strip().lower()
LabelMatches(label, start_value) == lower(strip(label)) = lower(strip(start_value))

\* The result: the node id returned, or the ValueError raised at the end.
resolve_start_node(start_value, nds, orig) ==
    IF IsIntText(start_value) THEN [raised |-> FALSE, value |-> int(start_value)]
    ELSE IF \E i \in 1 .. Len(orig) : LabelMatches(orig[i].label, start_value)
    THEN LET k == CHOOSE i \in 1 .. Len(orig) :
                      /\ LabelMatches(orig[i].label, start_value)
                      /\ \A j \in 1 .. (i - 1) : ~LabelMatches(orig[j].label, start_value)
         IN  [raised |-> FALSE, value |-> orig[k].id]
    ELSE [raised |-> TRUE, value |-> 0]

----------------------------------------------------------------------------
(* generate_dot.  The text it returns is kept as its node lines, its        *)
(* rank=same lines and its edge lines; rankdir, splines, ports and edge     *)
(* labels keep their defaults and leave those lines as they are.            *)

Abs(x) == IF x < 0 THEN 0 - x ELSE x

\* sorted(S) for a set of ints
RECURSIVE sorted(_)
sorted(S) ==
    IF S = {} THEN <<>>
    ELSE LET m == CHOOSE x \in S : \A y \in S : x <= y
         IN  <<m>> \o sorted(S \ {m})

\* text.replace("\\", "\\\\").replace("\"", "\\\"")
RECURSIVE escape_label(_)
escape_label(t) ==
    IF t = <<>> THEN <<>>
    ELSE (IF Head(t) = "\\" THEN <<"\\", "\\">>
          ELSE IF Head(t) = "\"" THEN <<"\\", "\"">>
          ELSE <<Head(t)>>) \o escape_label(Tail(t))

\* nodes.get(nid, default)
GetLabel(nds, nid, default) == IF nid \in DOMAIN nds THEN nds[nid] ELSE default

\* A test of the visited set that keeps an edge whose source alone is in it.
Included_src_only(e, included_nodes) == e.src \in included_nodes

\* A test of the visited set that looks at the destination alone.
Included_dst_only(e, included_nodes) == e.dst \in included_nodes

\* e["src"] in included_nodes and e["dst"] in included_nodes: the test of
\* main's comprehension, of generate_dot's loop and of export_html's loop.
Included(e, included_nodes) == e.src \in included_nodes /\ e.dst \in included_nodes

\* level_index: a node's index is that of the last group that holds it.
level_index_of(lvls) ==
    [n \in UNION Range(lvls) |->
        CHOOSE i \in 0 .. (Len(lvls) - 1) :
            n \in lvls[i + 1] /\ \A j \in (i + 1) .. (Len(lvls) - 1) : n \notin lvls[j + 1]]

\* delta: None, or d_lvl - s_lvl
Delta(e, level_index) ==
    IF e.src \in DOMAIN level_index /\ e.dst \in DOMAIN level_index
    THEN [none |-> FALSE, value |-> level_index[e.dst] - level_index[e.src]]
    ELSE [none |-> TRUE, value |-> 0]

\* A style table that draws every status as Enabled.
StatusStyle_all_enabled(st) ==
    [color |-> "#2e7d32", style |-> "solid", penwidth |-> "1.8"]

\* base_color, base_style, base_width
StatusStyle(st) ==
    IF st = "E" THEN [color |-> "#2e7d32", style |-> "solid", penwidth |-> "1.8"]
    ELSE IF st = "S" THEN [color |-> "#b71c1c", style |-> "dashed", penwidth |-> "1.2"]
    ELSE [color |-> "#666666", style |-> "dotted", penwidth |-> "1.0"]

\* Attributes that never carry the length hint.
EdgeAttrs_no_minlen(e, delta, deemphasize_cross) ==
    IF deemphasize_cross /\ ~delta.none /\ Abs(delta.value) # 1
    THEN [names |-> <<"constraint", "style", "color", "penwidth">>,
          constraint |-> "false", style |-> "dotted", color |-> "#999999",
          penwidth |-> "0.9", minlen |-> 0]
    ELSE LET base == StatusStyle(e.status)
         IN  [names |-> <<"color", "style", "penwidth">>,
              constraint |-> "", style |-> base.style, color |-> base.color,
              penwidth |-> base.penwidth, minlen |-> 0]

\* attrs of one edge line: names lists the attributes in the order they are
\* appended, the other fields give their values ("" and 0 where not appended).
EdgeAttrs(e, delta, deemphasize_cross) ==
    IF deemphasize_cross /\ ~delta.none /\ Abs(delta.value) # 1
    THEN [names |-> <<"constraint", "style", "color", "penwidth">>
                    \o (IF Abs(delta.value) > 1 THEN <<"minlen">> ELSE <<>>),
          constraint |-> "false", style |-> "dotted", color |-> "#999999",
          penwidth |-> "0.9",
          minlen |-> IF Abs(delta.value) > 1 THEN Abs(delta.value) ELSE 0]
    ELSE LET base == StatusStyle(e.status)
         IN  [names |-> <<"color", "style", "penwidth">>,
              constraint |-> "", style |-> base.style, color |-> base.color,
              penwidth |-> base.penwidth, minlen |-> 0]

\* `for nid in sorted(included_nodes)`: the node lines
NodeLines(nds, included_nodes, s) ==
    LET ids == sorted(included_nodes)
    IN  [i \in 1 .. Len(ids) |->
            LET name    == GetLabel(nds, ids[i], <<>>)
                display == IF name # <<>> THEN str(ids[i]) \o <<"\\", "n">> \o name
                           ELSE str(ids[i])
            IN  [id |-> ids[i], label |-> escape_label(display),
                 fillcolor |-> IF ids[i] = s THEN "#fff3cd" ELSE "#f0f4ff"]]

\* `for lvl, group in enumerate(levels)`: the rank=same lines
RECURSIVE RankLines(_, _)
RankLines(lvls, i) ==
    IF i > Len(lvls) THEN <<>>
    ELSE (IF lvls[i] = {} THEN <<>>
          ELSE <<[level |-> i - 1, nodes |-> sorted(lvls[i])]>>) \o RankLines(lvls, i + 1)

\* `for e in edges` from the i-th edge on: the edge lines
RECURSIVE EdgeLines(_, _, _, _, _, _)
EdgeLines(es, i, included_nodes, level_index, level_edges_only, deemphasize_cross) ==
    IF i > Len(es) THEN <<>>
    ELSE LET e     == es[i]
             delta == Delta(e, level_index)
             rest  == EdgeLines(es, i + 1, included_nodes, level_index,
                                level_edges_only, deemphasize_cross)
         IN  IF ~Included(e, included_nodes) THEN rest
             ELSE IF level_edges_only /\ (delta.none \/ Abs(delta.value) # 1) THEN rest
             ELSE <<[src |-> e.src, dst |-> e.dst,
                     attrs |-> EdgeAttrs(e, delta, deemphasize_cross)]>> \o rest

generate_dot(nds, es, included_nodes, lvls, s, level_edges_only, deemphasize_cross) ==
    [node_lines |-> NodeLines(nds, included_nodes, s),
     rank_lines |-> RankLines(lvls, 1),
     edge_lines |-> EdgeLines(es, 1, included_nodes, level_index_of(lvls),
                              level_edges_only, deemphasize_cross)]

----------------------------------------------------------------------------
(* export_html.  The page is kept as the two datasets written into it.     *)

\* The cap of the split_levels nested in export_html.
HtmlCap == 30

\* `for nid in included_nodes`: the node records
VisNodes(nds, included_nodes, s, node_lvls) ==
    LET ids == list_of_set(included_nodes)
    IN  [i \in 1 .. Len(ids) |->
            [id    |-> ids[i],
             label |-> GetLabel(nds, ids[i], str(ids[i])),
             level |-> IF ids[i] \in DOMAIN node_lvls THEN node_lvls[ids[i]] ELSE 0,
             start |-> ids[i] = s]]

\* A record that always has the single arrow.
VisEdge_one_way(e, edge_id) ==
    LET look == IF e.status = "E" THEN [color |-> "#81c784", width |-> "0.6", dashes |-> <<>>]
                ELSE IF e.status = "S"
                THEN [color |-> "#e57373", width |-> "0.5", dashes |-> <<5, 5>>]
                ELSE [color |-> "#999999", width |-> "0.4", dashes |-> <<2, 3>>]
    IN  [id |-> edge_id, from |-> e.src, to |-> e.dst, status |-> e.status,
         arrows |-> "to",
         color |-> look.color, width |-> look.width, dashes |-> look.dashes]

\* One edge record: dashes is <<>> for False.
VisEdge(e, edge_id) ==
    LET look == IF e.status = "E" THEN [color |-> "#81c784", width |-> "0.6", dashes |-> <<>>]
                ELSE IF e.status = "S"
                THEN [color |-> "#e57373", width |-> "0.5", dashes |-> <<5, 5>>]
                ELSE [color |-> "#999999", width |-> "0.4", dashes |-> <<2, 3>>]
    IN  [id |-> edge_id, from |-> e.src, to |-> e.dst, status |-> e.status,
         arrows |-> IF e.bidirectional THEN "to,from" ELSE "to",
         color |-> look.color, width |-> look.width, dashes |-> look.dashes]

\* `for e in edges` from the i-th edge on: the edge records
RECURSIVE VisEdges(_, _, _, _)
VisEdges(es, i, included_nodes, edge_id) ==
    IF i > Len(es) THEN <<>>
    ELSE IF Included(es[i], included_nodes)
    THEN <<VisEdge(es[i], edge_id)>> \o VisEdges(es, i + 1, included_nodes, edge_id + 1)
    ELSE VisEdges(es, i + 1, included_nodes, edge_id)

\* `json.dumps(original_nodes or {{}})` in the replacement field of the page's
\* f-string: an empty original_nodes is falsy, the operand `{{}}` is then
\* evaluated, a set display whose one member is a dict, and building it
\* raises TypeError: unhashable type: 'dict'.
OriginalNamesRaises(orig) == orig = <<>>

\* A page whose levels are cut again with a cap of ten.
export_html_cap_ten(nds, es, included_nodes, s, orig, lvls) ==
    LET r == split_levels(lvls, 10)
    IN  [raised |-> OriginalNamesRaises(orig),
         page   |-> [nodes |-> VisNodes(nds, included_nodes, s, r.node_levels),
                     edges |-> VisEdges(es, 1, included_nodes, 0)]]

\* raised: the f-string of the page raised, nothing is written or printed;
\* page is what is written to output_html otherwise.
export_html(nds, es, included_nodes, s, orig, lvls) ==
    LET r == split_levels(lvls, HtmlCap)
    IN  [raised |-> OriginalNamesRaises(orig),
         page   |-> [nodes |-> VisNodes(nds, included_nodes, s, r.node_levels),
                     edges |-> VisEdges(es, 1, included_nodes, 0)]]

----------------------------------------------------------------------------
(* Spec: the traversal of main -- build_adjacency, bfs_levels, split_levels *)
(* -- on every edge list within the bounds.                                *)

\* The traversal does not read labels: every edge is declared with label "E".
\* build_adjacency only adds to sets, so the graphs are enumerated once each,
\* as the edge list in ascending (src, dst) order without repeats; lists with
\* repeats and in any order are the inputs of SpecMerge.
Pairs == Nodes \X Nodes

PairBefore(p, q) == p[1] < q[1] \/ (p[1] = q[1] /\ p[2] <= q[2])

RECURSIVE SortedPairs(_)
SortedPairs(S) ==
    IF S = {} THEN <<>>
    ELSE LET m == CHOOSE p \in S : \A q \in S : PairBefore(p, q)
         IN  <<m>> \o SortedPairs(S \ {m})

EdgeListOf(S) ==
    LET ps == SortedPairs(S)
    IN  [i \in 1 .. Len(ps) |-> ParsedEdge(ps[i][1], ps[i][2], <<"E">>)]

EdgeLists == {EdgeListOf(S) : S \in {T \in SUBSET Pairs : Cardinality(T) <= MaxEdges}}

Init ==
    /\ pc = "parsed"
    /\ edges \in EdgeLists
    /\ start = Unused /\ depth = Unused /\ direction = Unused
    /\ out_adj = Unused /\ in_adj = Unused
    /\ levels = Unused /\ visited = Unused
    /\ merged = Unused
    /\ max_per_level = Unused /\ new_levels = Unused /\ node_levels = Unused
    /\ raw_label = Unused /\ status = Unused
    /\ MainUnused
    /\ LoopUnused

\* out_adj, in_adj = build_adjacency(edges)
BuildAdjacency ==
    /\ pc = "parsed"
    /\ LET r == build_adjacency(edges)
       IN  out_adj' = r.out_adj /\ in_adj' = r.in_adj
    /\ pc' = "adjacency"
    /\ UNCHANGED <<edges, start, depth, direction, levels, visited, merged,
                   max_per_level, new_levels, node_levels, raw_label, status>>
    /\ UNCHANGED mainVars
    /\ UNCHANGED loopVars

\* levels, included_nodes = bfs_levels(start_node, args.depth, out_adj, in_adj,
\*                                     args.direction)
BfsLevels ==
    /\ pc = "adjacency"
    /\ \E s \in Nodes, d \in Depths, dir \in Directions :
          LET r == bfs_levels(s, d, out_adj, in_adj, dir)
          IN  /\ start' = s /\ depth' = d /\ direction' = dir
              /\ levels' = r.levels /\ visited' = r.visited
    /\ pc' = "bfs"
    /\ UNCHANGED <<edges, out_adj, in_adj, merged, max_per_level, new_levels,
                   node_levels, raw_label, status>>
    /\ UNCHANGED mainVars
    /\ UNCHANGED loopVars

\* levels, node_levels = split_levels(levels, max_per_level=cap)
SplitLevels ==
    /\ pc = "bfs"
    /\ \E cap \in Caps :
          LET r == split_levels(levels, cap)
          IN  /\ max_per_level' = cap
              /\ new_levels' = r.new_levels /\ node_levels' = r.node_levels
    /\ pc' = "split"
    /\ UNCHANGED <<edges, start, depth, direction, out_adj, in_adj, levels,
                   visited, merged, raw_label, status>>
    /\ UNCHANGED mainVars
    /\ UNCHANGED loopVars

Next == BuildAdjacency \/ BfsLevels \/ SplitLevels

Spec == Init /\ [][Next]_vars

----------------------------------------------------------------------------
(* SpecStatus: extract_status on every label within the bounds.            *)

InitStatus ==
    /\ pc = "label"
    /\ raw_label \in Labels
    /\ status = Unused
    /\ edges = Unused /\ start = Unused /\ depth = Unused /\ direction = Unused
    /\ out_adj = Unused /\ in_adj = Unused /\ levels = Unused /\ visited = Unused
    /\ merged = Unused
    /\ max_per_level = Unused /\ new_levels = Unused /\ node_levels = Unused
    /\ MainUnused
    /\ LoopUnused

\* status = extract_status(raw)
ExtractStatus ==
    /\ pc = "label"
    /\ status' = extract_status(raw_label)
    /\ pc' = "classified"
    /\ UNCHANGED <<edges, start, depth, direction, out_adj, in_adj, levels, visited,
                   merged, max_per_level, new_levels, node_levels, raw_label>>
    /\ UNCHANGED mainVars
    /\ UNCHANGED loopVars

NextStatus == ExtractStatus

SpecStatus == InitStatus /\ [][NextStatus]_vars

----------------------------------------------------------------------------
(* SpecMerge: merge_bidirectional_edges on every edge list within the      *)
(* bounds, repeats and both orientations included.                         *)

MergeLabels == {<<"E">>, <<"S", "|", "x">>}

MergeEdges == {ParsedEdge(s, d, l) : s \in MergeNodes, d \in MergeNodes, l \in MergeLabels}

InitMerge ==
    /\ pc = "filtered"
    /\ edges \in SeqsUpTo(MergeEdges, MaxListLen)
    /\ merged = Unused
    /\ start = Unused /\ depth = Unused /\ direction = Unused
    /\ out_adj = Unused /\ in_adj = Unused /\ levels = Unused /\ visited = Unused
    /\ max_per_level = Unused /\ new_levels = Unused /\ node_levels = Unused
    /\ raw_label = Unused /\ status = Unused
    /\ MainUnused
    /\ LoopUnused

\* filtered_edges = merge_bidirectional_edges(filtered_edges)
MergeBidirectionalEdges ==
    /\ pc = "filtered"
    /\ merged' = merge_bidirectional_edges(edges)
    /\ pc' = "merged"
    /\ UNCHANGED <<edges, start, depth, direction, out_adj, in_adj, levels, visited,
                   max_per_level, new_levels, node_levels, raw_label, status>>
    /\ UNCHANGED mainVars
    /\ UNCHANGED loopVars

NextMerge == MergeBidirectionalEdges

SpecMerge == InitMerge /\ [][NextMerge]_vars


----------------------------------------------------------------------------
(* main, from the parse of the source text to the export of the page, in   *)
(* the steps that can be told apart from outside: what is printed, which   *)
(* files are written and whether the renderer runs.  An option is drawn    *)
(* when main first reads it.                                               *)

\* The cap main gives to split_levels.
MainCap == 20

\* Most leaves of a fan, a graph whose second level is wider than MainCap.
MaxFan == 21

NoneValue == "None"

\* args before any option is read
NoArgs ==
    [enabled_only |-> Unused, start |-> Unused, level_edges_only |-> Unused,
     deemphasize_cross |-> Unused, render |-> Unused, html |-> Unused]

\* No output file exists when main starts.
NoFiles == [name \in {} |-> <<>>]

\* open(name, 'w') and write: the file holds content, whatever it held before
Written(fs, name, content) ==
    [n \in DOMAIN fs \cup {name} |-> IF n = name THEN content ELSE fs[n]]

\* A filter that drops Disabled edges only.
EnabledEdges_keep_suspended(es) == SelectSeq(es, LAMBDA e : e.status # "D")

\* [e for e in edges if e['status'] == 'E']
EnabledEdges(es) == SelectSeq(es, LAMBDA e : e.status = "E")

\* A handler that prints the error and carries on from node 1.
ResolveFailure_carry_on == [pc |-> "resolved", start |-> 1]

\* The except branch around resolve_start_node: print, then sys.exit(1).
ResolveFailure == [pc |-> "exit_1", start |-> Unused]

\* What the call of subprocess.run in render_with_graphviz can come to, with
\* first the case that shutil.which finds no dot: the program exits with 0,
\* it exits with another status (CalledProcessError), it cannot be executed
\* (OSError).
GraphvizOutcomes == {"not_found", "ok", "failed", "cannot_execute"}

RenderOptions == {NoneValue, "png", "svg"}

\* args.html: the empty path, which main takes for no page, and the default.
HtmlOptions == {"", "reachability.html"}

MainInit(texts) ==
    /\ pc = "read"
    /\ source_text \in texts
    /\ args = NoArgs
    /\ files = NoFiles
    /\ log = <<>>
    /\ renderer = "not_called"
    /\ nodes = Unused /\ original_nodes = Unused /\ dot_text = Unused
    /\ edges = Unused /\ start = Unused /\ depth = Unused /\ direction = Unused
    /\ out_adj = Unused /\ in_adj = Unused /\ levels = Unused /\ visited = Unused
    /\ merged = Unused
    /\ max_per_level = Unused /\ new_levels = Unused /\ node_levels = Unused
    /\ raw_label = Unused /\ status = Unused
    /\ LoopUnused

\* nodes, edges, original_nodes = parse_source_text(source_text)
\* if args.enabled_only: edges = [e for e in edges if e['status'] == 'E']
MainParse ==
    /\ pc = "read"
    /\ \E enabled_only \in BOOLEAN :
          LET r == parse_source_text(source_text)
          IN  /\ nodes' = r.nodes
              /\ original_nodes' = r.original_nodes
              /\ edges' = IF enabled_only THEN EnabledEdges(r.edges) ELSE r.edges
              /\ args' = [args EXCEPT !.enabled_only = enabled_only]
    /\ pc' = "main_parsed"
    /\ UNCHANGED <<start, depth, direction, out_adj, in_adj, levels, visited, merged,
                   max_per_level, new_levels, node_levels, raw_label, status,
                   source_text, dot_text, files, log, renderer>>
    /\ UNCHANGED loopVars

\* try: start_node = resolve_start_node(args.start, nodes, original_nodes)
\* except Exception as e: print(str(e), file=sys.stderr); sys.exit(1)
MainResolve(start_values) ==
    /\ pc = "main_parsed"
    /\ \E v \in start_values :
          LET r == resolve_start_node(v, nodes, original_nodes)
          IN  /\ args' = [args EXCEPT !.start = v]
              /\ IF r.raised
                 THEN /\ log' = Append(log, "could_not_resolve")
                      /\ start' = ResolveFailure.start
                      /\ pc' = ResolveFailure.pc
                 ELSE /\ log' = log
                      /\ start' = r.value
                      /\ pc' = "resolved"
    /\ UNCHANGED <<edges, depth, direction, out_adj, in_adj, levels, visited, merged,
                   max_per_level, new_levels, node_levels, raw_label, status,
                   source_text, nodes, original_nodes, dot_text, files, renderer>>
    /\ UNCHANGED loopVars

\* out_adj, in_adj = build_adjacency(edges)
\* levels, included_nodes = bfs_levels(start_node, args.depth, ...)
\* filtered_edges = [e for e in edges if e["src"] in included_nodes and ...]
\* filtered_edges = merge_bidirectional_edges(filtered_edges)
\* levels, node_levels = split_levels(levels, max_per_level=20)
\* merged is main's filtered_edges; levels keeps the levels of bfs_levels and
\* new_levels is what main binds levels to in the end.
MainTraverse ==
    /\ pc = "resolved"
    /\ \E d \in Depths, dir \in Directions :
          LET adj      == build_adjacency(edges)
              r        == bfs_levels(start, d, adj.out_adj, adj.in_adj, dir)
              filtered == SelectSeq(edges, LAMBDA e : Included(e, r.visited))
              bands    == split_levels(r.levels, MainCap)
          IN  /\ depth' = d /\ direction' = dir
              /\ out_adj' = adj.out_adj /\ in_adj' = adj.in_adj
              /\ levels' = r.levels /\ visited' = r.visited
              /\ merged' = merge_bidirectional_edges(filtered)
              /\ max_per_level' = MainCap
              /\ new_levels' = bands.new_levels /\ node_levels' = bands.node_levels
    /\ pc' = "traversed"
    /\ UNCHANGED <<edges, start, raw_label, status, mainVars>>
    /\ UNCHANGED loopVars

\* dot_text = generate_dot(nodes, filtered_edges, included_nodes, levels, ...)
\* with open(args.output, 'w') as f: f.write(dot_text)
\* print(f"Wrote DOT to: {args.output}")
MainWriteDot ==
    /\ pc = "traversed"
    /\ \E level_edges_only \in BOOLEAN, deemphasize_cross \in BOOLEAN :
          LET t == generate_dot(nodes, merged, visited, new_levels, start,
                                level_edges_only, deemphasize_cross)
          IN  /\ args' = [args EXCEPT !.level_edges_only = level_edges_only,
                                      !.deemphasize_cross = deemphasize_cross]
              /\ dot_text' = t
              /\ files' = Written(files, "dot", t)
    /\ log' = Append(log, "wrote_dot")
    /\ pc' = "dot_written"
    /\ UNCHANGED <<edges, start, depth, direction, out_adj, in_adj, levels, visited,
                   merged, max_per_level, new_levels, node_levels, raw_label, status,
                   source_text, nodes, original_nodes, renderer>>
    /\ UNCHANGED loopVars

\* if args.render: out_img = render_with_graphviz(args.output, ...)
\*                 if out_img: print(f"Rendered image: {out_img}")
\* render_with_graphviz prints its warning and returns None when dot is not
\* found and when subprocess.run raises CalledProcessError; no handler of
\* main or of render_with_graphviz catches the OSError of a dot that cannot
\* be executed, and the run ends with its traceback.
MainRender(render_options) ==
    /\ pc = "dot_written"
    /\ \E render \in render_options :
          /\ args' = [args EXCEPT !.render = render]
          /\ IF render = NoneValue
             THEN /\ renderer' = renderer /\ files' = files /\ log' = log
                  /\ pc' = "rendered"
             ELSE \E outcome \in GraphvizOutcomes :
                  /\ renderer' = outcome
                  /\ files' = IF outcome = "ok"
                              THEN Written(files, "image", [format |-> render])
                              ELSE files
                  /\ log' = Append(log,
                                CASE outcome = "not_found" -> "dot_not_found"
                                  [] outcome = "ok" -> "rendered_image"
                                  [] outcome = "failed" -> "rendering_failed"
                                  [] OTHER -> "traceback")
                  /\ pc' = IF outcome = "cannot_execute" THEN "crashed" ELSE "rendered"
    /\ UNCHANGED <<edges, start, depth, direction, out_adj, in_adj, levels, visited,
                   merged, max_per_level, new_levels, node_levels, raw_label, status,
                   source_text, nodes, original_nodes, dot_text>>
    /\ UNCHANGED loopVars

\* if args.html: export_html(nodes, filtered_edges, included_nodes, args.html,
\*                           start_node, original_nodes, levels, node_levels)
\* No handler of main catches the TypeError of export_html: the run ends with
\* its traceback, before the page is opened for writing.
MainExportHtml(html_options) ==
    /\ pc = "rendered"
    /\ \E html \in html_options :
          /\ args' = [args EXCEPT !.html = html]
          /\ IF html = ""
             THEN files' = files /\ log' = log /\ pc' = "done"
             ELSE LET r == export_html(nodes, merged, visited, start, original_nodes,
                                       new_levels)
                  IN  IF r.raised
                      THEN /\ files' = files
                           /\ log' = Append(log, "traceback")
                           /\ pc' = "crashed"
                      ELSE /\ files' = Written(files, "html", r.page)
                           /\ log' = Append(log, "html_written")
                           /\ pc' = "done"
    /\ UNCHANGED <<edges, start, depth, direction, out_adj, in_adj, levels, visited,
                   merged, max_per_level, new_levels, node_levels, raw_label, status,
                   source_text, nodes, original_nodes, dot_text, renderer>>
    /\ UNCHANGED loopVars

----------------------------------------------------------------------------
(* SpecMain: main on every graph made of the candidate edges and on every  *)
(* fan, with every traversal and every drawing option, without --render    *)
(* and with the page that is written by default.                           *)

\* The edges a graph is made of; each is left out or declared with one of the
\* three labels.  Node 1 is declared before the edges, node 8 after them and
\* node 2 is not declared.
CandidateEdges == <<<<1, 2>>, <<2, 8>>, <<8, 1>>, <<2, 1>>>>

EdgeLabels == {<<"E">>, <<"S", "|", "x">>, <<"d">>}

RECURSIVE EdgeDecls(_, _)
EdgeDecls(choice, i) ==
    IF i > Len(choice) THEN <<>>
    ELSE (IF choice[i] = <<"-">> THEN <<>>
          ELSE <<EdgeDecl(CandidateEdges[i][1], CandidateEdges[i][2], choice[i])>>)
         \o EdgeDecls(choice, i + 1)

\* The texts that declare some of the first k candidate edges.
GraphTexts(k) ==
    {<<NodeDecl(1, <<"A">>)>> \o EdgeDecls(choice, 1) \o <<NodeDecl(8, <<"B">>)>> :
        choice \in [1 .. k -> EdgeLabels \cup {<<"-">>}]}

\* Node 1 with an Enabled edge to each of the n nodes 2 .. n + 1; the fan of
\* no leaf is the text that declares nothing.
FanText(n) == [i \in 1 .. n |-> EdgeDecl(1, i + 1, <<"E">>)]

\* Node 1 declared with a label that is empty once stripped, and an edge from
\* it to node 2.
BlankLabelTexts ==
    {<<NodeDecl(1, l), EdgeDecl(1, 2, <<"E">>)>> : l \in {<<>>, <<" ">>}}

MainTexts ==
    GraphTexts(Len(CandidateEdges)) \cup {FanText(n) : n \in 0 .. MaxFan}
        \cup BlankLabelTexts

MainStarts == {<<"1">>, <<"2">>, <<"8">>}

InitMain == MainInit(MainTexts)

NextMain ==
    \/ MainParse
    \/ MainResolve(MainStarts)
    \/ MainTraverse
    \/ MainWriteDot
    \/ MainRender({NoneValue})
    \/ MainExportHtml({"reachability.html"})

SpecMain == InitMain /\ [][NextMain]_vars

----------------------------------------------------------------------------
(* SpecRun: main on a few graphs with every start value, every option and  *)
(* every outcome of the renderer.                                          *)

\* The one-edge graphs and the text that declares nothing.
RunTexts == GraphTexts(1) \cup {<<>>}

\* An id of the graph, an id that is not in it, a label in another case and
\* with blanks around it, the label of an edge, a text that is no label.
RunStarts == {<<"1">>, <<"9">>, <<" ", "a">>, <<"e">>, <<"z">>}

InitRun == MainInit(RunTexts)

NextRun ==
    \/ MainParse
    \/ MainResolve(RunStarts)
    \/ MainTraverse
    \/ MainWriteDot
    \/ MainRender(RenderOptions)
    \/ MainExportHtml(HtmlOptions)

SpecRun == InitRun /\ [][NextRun]_vars

----------------------------------------------------------------------------
(* SpecParse: parse_source_text and resolve_start_node, as main calls them, *)
(* on every text of a few declarations.                                    *)

\* Most declarations of a text.
MaxDecls == 3

ParseIds == {1, 2}

\* Labels of node declarations: none, one letter, one that strip() shortens.
ParseLabels == {<<>>, <<"A">>, <<" ", "b">>}

Decls ==
    {NodeDecl(n, l) : n \in ParseIds, l \in ParseLabels}
    \cup {EdgeDecl(s, d, <<"D">>) : s \in ParseIds, d \in ParseIds}

ParseTexts == SeqsUpTo(Decls, MaxDecls)

\* Ids of the graph with and without blanks, an id that is not in it, labels
\* in both cases, the label of the edges, a text that is no label.
ParseStarts == {<<"1">>, <<" ", "2">>, <<"9">>, <<"a">>, <<"B", " ">>, <<"d">>, <<"z">>}

InitParse == MainInit(ParseTexts)

NextParse == MainParse \/ MainResolve(ParseStarts)

SpecParse == InitParse /\ [][NextParse]_vars

----------------------------------------------------------------------------
(* SpecAdjacency: build_adjacency on every edge list within the bounds,    *)
(* repeats, both orientations, self-loops and the three statuses included. *)

AdjacencyEdges ==
    {ParsedEdge(s, d, l) : s \in MergeNodes, d \in MergeNodes, l \in EdgeLabels}

InitAdjacency ==
    /\ pc = "parsed"
    /\ \E k \in 0 .. MaxListLen : edges \in [1 .. k -> AdjacencyEdges]
    /\ start = Unused /\ depth = Unused /\ direction = Unused
    /\ out_adj = Unused /\ in_adj = Unused
    /\ levels = Unused /\ visited = Unused
    /\ merged = Unused
    /\ max_per_level = Unused /\ new_levels = Unused /\ node_levels = Unused
    /\ raw_label = Unused /\ status = Unused
    /\ MainUnused
    /\ LoopUnused

NextAdjacency == BuildAdjacency

SpecAdjacency == InitAdjacency /\ [][NextAdjacency]_vars

----------------------------------------------------------------------------
(* SpecNeighborhood: the two statements of main that cut the edge list to  *)
(* the visited set and merge it, on every edge list of SpecMerge and every *)
(* set of its node ids as the visited set.                                 *)

InitNeighborhood ==
    /\ pc = "unfiltered"
    /\ edges \in SeqsUpTo(MergeEdges, MaxListLen)
    /\ visited \in SUBSET MergeNodes
    /\ merged = Unused
    /\ start = Unused /\ depth = Unused /\ direction = Unused
    /\ out_adj = Unused /\ in_adj = Unused /\ levels = Unused
    /\ max_per_level = Unused /\ new_levels = Unused /\ node_levels = Unused
    /\ raw_label = Unused /\ status = Unused
    /\ MainUnused
    /\ LoopUnused

\* filtered_edges = [e for e in edges if e["src"] in included_nodes
\*                                     and e["dst"] in included_nodes]
\* filtered_edges = merge_bidirectional_edges(filtered_edges)
FilterAndMerge ==
    /\ pc = "unfiltered"
    /\ merged' = merge_bidirectional_edges(SelectSeq(edges, LAMBDA e : Included(e, visited)))
    /\ pc' = "neighborhood"
    /\ UNCHANGED <<edges, start, depth, direction, out_adj, in_adj, levels, visited,
                   max_per_level, new_levels, node_levels, raw_label, status>>
    /\ UNCHANGED mainVars
    /\ UNCHANGED loopVars

NextNeighborhood == FilterAndMerge

SpecNeighborhood == InitNeighborhood /\ [][NextNeighborhood]_vars

----------------------------------------------------------------------------
(* SpecLoop: the loop of bfs_levels round by round, on every edge list of  *)
(* Spec, with hop budgets up to one that no graph of the model can use up. *)
(* The interpreter runs the statement that comes next and nothing else is  *)
(* scheduled: a step that can be taken is taken.                           *)

\* A hop budget far larger than the number of nodes of any graph drawn.
FarDepth == 9

LoopDepths == Depths \cup {FarDepth}

\* if depth < 0: depth = 0
ClampedDepth(d) == IF d < 0 THEN 0 ELSE d

\* A loop that goes on after a round that found nothing.
RoundBreaks_never(nxt) == FALSE

\* if not nxt: break
RoundBreaks(nxt) == nxt = {}

\* bfs_levels is entered with the adjacency maps of an edge list of Spec:
\* visited = {start}; levels = [set([start])]; frontier = set([start]),
\* and no round of the loop has begun.
InitLoop ==
    /\ pc = "bfs_loop"
    /\ edges \in EdgeLists
    /\ start \in Nodes /\ depth \in LoopDepths /\ direction \in Directions
    /\ out_adj = build_adjacency(edges).out_adj
    /\ in_adj = build_adjacency(edges).in_adj
    /\ visited = {start} /\ levels = <<{start}>> /\ bfs_frontier = {start}
    /\ rounds = 0
    /\ merged = Unused
    /\ max_per_level = Unused /\ new_levels = Unused /\ node_levels = Unused
    /\ raw_label = Unused /\ status = Unused
    /\ MainUnused

\* One iteration of `for _ in range(depth)`: the two inner loops, then
\* `if not nxt: break`, which goes to the return, or the append to levels.
BfsRound ==
    /\ pc = "bfs_loop"
    /\ rounds < ClampedDepth(depth)
    /\ rounds' = rounds + 1
    /\ LET nxt == Discovered(bfs_frontier, visited, out_adj, in_adj, direction)
       IN  /\ visited' = visited \cup nxt
           /\ IF RoundBreaks(nxt)
              THEN /\ levels' = levels /\ bfs_frontier' = bfs_frontier
                   /\ pc' = "bfs_returned"
              ELSE /\ levels' = Append(levels, nxt) /\ bfs_frontier' = nxt
                   /\ pc' = "bfs_loop"
    /\ UNCHANGED <<edges, start, depth, direction, out_adj, in_adj, merged,
                   max_per_level, new_levels, node_levels, raw_label, status>>
    /\ UNCHANGED mainVars

\* range(depth) is used up: return levels, visited
BfsExhausted ==
    /\ pc = "bfs_loop"
    /\ rounds >= ClampedDepth(depth)
    /\ pc' = "bfs_returned"
    /\ UNCHANGED <<edges, start, depth, direction, out_adj, in_adj, levels, visited,
                   merged, max_per_level, new_levels, node_levels, raw_label, status>>
    /\ UNCHANGED mainVars
    /\ UNCHANGED loopVars

NextLoop == BfsRound \/ BfsExhausted

\* Every step of NextLoop changes pc or rounds.
SpecLoop == InitLoop /\ [][NextLoop]_vars /\ WF_<<pc, rounds>>(NextLoop)

----------------------------------------------------------------------------
(* Distances, stated on the edge list itself and not on the adjacency maps. *)

\* v is one hop from u: along an edge (out), against one (in), or either way.
Hop(u, v, es, dir) ==
    \E i \in 1 .. Len(es) :
        \/ dir \in {"out", "both"} /\ es[i].src = u /\ es[i].dst = v
        \/ dir \in {"in", "both"}  /\ es[i].src = v /\ es[i].dst = u

\* The nodes at which a path of exactly k hops from s can end.
RECURSIVE PathEnds(_, _, _, _)
PathEnds(s, k, es, dir) ==
    IF k = 0 THEN {s}
    ELSE LET before == PathEnds(s, k - 1, es, dir)
         IN  {v \in Nodes : \E u \in before : Hop(u, v, es, dir)}

\* n has distance exactly k from s.
AtDistance(n, k, s, es, dir) ==
    /\ n \in PathEnds(s, k, es, dir)
    /\ \A j \in 0 .. (k - 1) : n \notin PathEnds(s, j, es, dir)

Traversed == pc \in {"bfs", "split"}

\* C1: every node that bfs_levels puts in level k has distance exactly k from
\* start under the chosen direction: a path of k hops exists, none shorter.
C1_LevelIsDistance ==
    Traversed =>
        \A k \in 1 .. Len(levels) : \A n \in levels[k] :
            AtDistance(n, k - 1, start, edges, direction)

\* A run against the edges whose third level is not empty and whose second
\* level has two nodes.
C1_Witness ==
    /\ pc = "bfs" /\ direction = "in"
    /\ Len(levels) >= 3 /\ Cardinality(levels[2]) >= 2

\* C2: the visited set is exactly the set of nodes within max(depth, 0) hops
\* of start; start is in it whatever the depth.
C2_VisitedIsHopBudget ==
    Traversed =>
        /\ start \in visited
        /\ visited = {n \in Nodes \cup {start} :
                        \E k \in 0 .. Max(depth, 0) : n \in PathEnds(start, k, edges, direction)}

\* A run whose hop budget cuts the traversal short: a node one hop beyond the
\* last level exists and is left out.
C2_Witness ==
    /\ pc = "bfs" /\ depth >= 1 /\ Len(levels) = depth + 1
    /\ \E n \in Nodes : AtDistance(n, depth + 1, start, edges, direction) /\ n \notin visited

\* C3: the levels partition the visited set: level 0 is {start}, no node is in
\* two levels, and the union of the levels is the visited set.
C3_LevelsPartitionVisited ==
    Traversed =>
        /\ levels[1] = {start}
        /\ \A i, j \in 1 .. Len(levels) : i # j => levels[i] \cap levels[j] = {}
        /\ UNION {levels[i] : i \in 1 .. Len(levels)} = visited

\* A run on a graph with a cycle back to the start and three levels.
C3_Witness ==
    /\ pc = "bfs" /\ Len(levels) >= 3
    /\ \E i \in 1 .. Len(edges) : edges[i].dst = start /\ edges[i].src \in levels[3]
    /\ direction = "out"

\* C4: for the graph, start and direction of the run, a smaller hop budget
\* never visits a node that the run's budget does not.
C4_VisitedMonotonic ==
    Traversed =>
        \A d1 \in Depths :
            d1 <= depth =>
                bfs_levels(start, d1, out_adj, in_adj, direction).visited \subseteq visited

\* A run whose visited set is strictly larger than that of the budget one
\* below it, which in turn is larger than {start}.
C4_Witness ==
    /\ pc = "bfs" /\ depth >= 2
    /\ LET below == bfs_levels(start, depth - 1, out_adj, in_adj, direction).visited
       IN  below # visited /\ below # {start}

----------------------------------------------------------------------------
(* The classifier's rule, stated on the characters of the label.           *)

\* The text before the first "|" (all of it when there is none).
FirstSegment(raw) ==
    LET bars == {i \in 1 .. Len(raw) : raw[i] = "|"}
    IN  IF bars = {} THEN raw
        ELSE SubSeq(raw, 1, (CHOOSE i \in bars : \A j \in bars : i <= j) - 1)

\* The first character of seg that is not a blank, "" when there is none.
LeadingChar(seg) ==
    LET at == {i \in 1 .. Len(seg) : seg[i] # " "}
    IN  IF at = {} THEN "" ELSE seg[CHOOSE i \in at : \A j \in at : i <= j]

RuleStatus(raw) ==
    LET c == LeadingChar(FirstSegment(raw))
    IN  IF c \in {"S", "s"} THEN "S" ELSE IF c \in {"D", "d"} THEN "D" ELSE "E"

\* Texts put in place of the later segments.
Tails == SeqsUpTo(Chars, 2)

\* C5: extract_status returns S when the trimmed first segment starts with S
\* or s, D when it starts with D or d, and E otherwise (the empty label too);
\* dropping or replacing what follows the first segment never changes it.
C5_StatusFromFirstSegment ==
    pc = "classified" =>
        /\ status \in {"E", "S", "D"}
        /\ status = RuleStatus(raw_label)
        /\ extract_status(FirstSegment(raw_label)) = status
        /\ \A t \in Tails :
              extract_status(FirstSegment(raw_label) \o <<"|">> \o t) = status

\* A label whose first segment is a blank and a lower-case s, and whose
\* second segment starts with D, classified Suspended.
C5_Witness ==
    /\ pc = "classified" /\ status = "S"
    /\ raw_label = <<" ", "s", "|", "D">>

----------------------------------------------------------------------------
(* The merger.                                                             *)

Ends(e) == {e.src, e.dst}

\* C6: the merged list holds exactly one edge for every unordered pair of
\* nodes that has an edge in the input, and none for any other pair.
C6_OneEdgePerPair ==
    pc = "merged" =>
        \A a \in MergeNodes, b \in MergeNodes :
            Cardinality({i \in 1 .. Len(merged) : Ends(merged[i]) = {a, b}})
                = IF \E j \in 1 .. Len(edges) : Ends(edges[j]) = {a, b} THEN 1 ELSE 0

\* Three input edges on two pairs, one pair in both orientations.
C6_Witness ==
    /\ pc = "merged" /\ Len(edges) = 3 /\ Len(merged) = 2
    /\ \E i, j \in 1 .. Len(edges) :
          /\ edges[i].src # edges[i].dst
          /\ edges[j].src = edges[i].dst /\ edges[j].dst = edges[i].src

\* C7 (as claimed): a merged edge between two distinct nodes is flagged
\* bidirectional exactly when the input has edges in both orientations between
\* them; repeats of one directed edge leave it unflagged.
C7_FlaggedIffOpposite ==
    pc = "merged" =>
        \A i \in 1 .. Len(merged) :
            LET a == merged[i].src
                b == merged[i].dst
            IN  a # b =>
                  (merged[i].bidirectional <=>
                      /\ \E j \in 1 .. Len(edges) : edges[j].src = a /\ edges[j].dst = b
                      /\ \E j \in 1 .. Len(edges) : edges[j].src = b /\ edges[j].dst = a)

----------------------------------------------------------------------------
(* The partitioner.                                                        *)

Bands == 1 .. Len(new_levels)

\* C8: every band holds at most max_per_level nodes; the bands hold exactly
\* the nodes of the levels, each node in one band only, and node_levels maps
\* each node to the index of the band it is in.
C8_BandsWithinCap ==
    pc = "split" =>
        /\ \A b \in Bands : Cardinality(new_levels[b]) <= max_per_level
        /\ UNION {new_levels[b] : b \in Bands} = UNION {levels[k] : k \in 1 .. Len(levels)}
        /\ \A b1, b2 \in Bands : b1 # b2 => new_levels[b1] \cap new_levels[b2] = {}
        /\ DOMAIN node_levels = visited
        /\ \A n \in DOMAIN node_levels :
              node_levels[n] + 1 \in Bands /\ n \in new_levels[node_levels[n] + 1]

\* A level of three nodes cut with cap 2.
C8_Witness ==
    /\ pc = "split" /\ max_per_level = 2
    /\ \E k \in 1 .. Len(levels) : Cardinality(levels[k]) = 3

\* C9: the band indices in use are exactly 0 .. number of bands - 1 and no
\* band is empty; the bands cut from one level have consecutive indices; a
\* node of an earlier level has a smaller band index than a node of a later
\* one.
C9_BandsKeepLevelOrder ==
    pc = "split" =>
        /\ {node_levels[n] : n \in DOMAIN node_levels} = 0 .. (Len(new_levels) - 1)
        /\ \A b \in Bands : new_levels[b] # {}
        /\ \A k \in 1 .. Len(levels) :
              LET idx == {node_levels[n] : n \in levels[k]}
              IN  \A i \in idx, j \in idx : \A m \in i .. j : m \in idx
        /\ \A k1, k2 \in 1 .. Len(levels) :
              k1 < k2 => \A u \in levels[k1], v \in levels[k2] :
                            node_levels[u] < node_levels[v]

\* A second level of two nodes cut into two bands, with a third level after it.
C9_Witness ==
    /\ pc = "split" /\ max_per_level = 1
    /\ Len(levels) >= 3 /\ Cardinality(levels[2]) = 2
    /\ Len(new_levels) > Len(levels)

\* C10 (as claimed): within one level, every node of an earlier sub-band has a
\* smaller id than every node of a later sub-band.
C10_ChunksAscendById ==
    pc = "split" =>
        \A k \in 1 .. Len(levels) : \A u \in levels[k], v \in levels[k] :
            node_levels[u] < node_levels[v] => u < v

----------------------------------------------------------------------------
(* Claims about main's bands and about the edge lines of generate_dot.     *)

MainTraversed == pc \in {"traversed", "dot_written", "rendered", "crashed", "done"}

DotWritten == pc \in {"dot_written", "rendered", "crashed", "done"}

\* The ids an edge list speaks of, and the start node.
GraphIds(es, s) ==
    {s} \cup {es[i].src : i \in 1 .. Len(es)} \cup {es[i].dst : i \in 1 .. Len(es)}

\* The nodes at which a path of exactly k hops from s can end.
RECURSIVE PathEndsIn(_, _, _, _)
PathEndsIn(s, k, es, dir) ==
    IF k = 0 THEN {s}
    ELSE LET before == PathEndsIn(s, k - 1, es, dir)
         IN  {v \in GraphIds(es, s) : \E u \in before : Hop(u, v, es, dir)}

\* n has distance exactly k from s.
DistanceIs(n, k, s, es, dir) ==
    /\ n \in PathEndsIn(s, k, es, dir)
    /\ \A j \in 0 .. (k - 1) : n \notin PathEndsIn(s, j, es, dir)

\* The band indices of n: the one main keeps in node_levels and the one
\* generate_dot works out from the bands.
BandIndices(n) == {node_levels[n], level_index_of(new_levels)[n]}

\* C11, as claimed: after main has cut the levels into bands of at most 20,
\* the band index of every visited node is its BFS distance from start.
C11_BandIsDistance ==
    MainTraversed =>
        \A n \in visited : \A b \in BandIndices(n) :
            DistanceIs(n, b, start, edges, direction)

\* C11, amended: the band index of every visited node is at least its BFS
\* distance from start, and it is the distance whenever no BFS level up to
\* the node's own holds more than 20 nodes.
C11_BandAtLeastDistance ==
    MainTraversed =>
        \A n \in visited : \A b \in BandIndices(n) :
            \E k \in 0 .. b :
                /\ DistanceIs(n, k, start, edges, direction)
                /\ (\A j \in 1 .. (k + 1) : Cardinality(levels[j]) <= MainCap) => k = b

\* A traversal whose second level holds 21 nodes: 20 of them are in band 1,
\* at their distance, and the last one is in band 2, one hop from start.
C11_Witness ==
    /\ pc = "traversed"
    /\ Len(levels) = 2 /\ Cardinality(levels[2]) = MainCap + 1
    /\ Len(new_levels) = 3
    /\ \E n \in levels[2] : node_levels[n] = 2 /\ DistanceIs(n, 1, start, edges, direction)
    /\ \E n \in levels[2] : node_levels[n] = 1 /\ DistanceIs(n, 1, start, edges, direction)

\* The band difference of an edge line, dst minus src.
LineDelta(line) == node_levels[line.dst] - node_levels[line.src]

HasAttr(line, name) == \E i \in 1 .. Len(line.attrs.names) : line.attrs.names[i] = name

\* The status of the edge that a line draws: the merged list holds one edge
\* for a pair of ends.
LineStatus(line) ==
    LET i == CHOOSE j \in 1 .. Len(merged) :
                 merged[j].src = line.src /\ merged[j].dst = line.dst
    IN  merged[i].status

\* What C12 asks of one edge line.
CrossBandHints(line) ==
    /\ Abs(LineDelta(line)) > 1 =>
          /\ HasAttr(line, "constraint") /\ line.attrs.constraint = "false"
          /\ HasAttr(line, "minlen") /\ line.attrs.minlen = Abs(LineDelta(line))
    /\ LineDelta(line) = 0 =>
          /\ HasAttr(line, "constraint") /\ line.attrs.constraint = "false"
          /\ ~HasAttr(line, "minlen")

\* C12, as claimed: every edge line whose ends are more than one band apart
\* carries constraint=false and minlen = |delta| whatever its status, and
\* every edge line within one band carries constraint=false and no minlen.
C12_CrossBandHints ==
    DotWritten =>
        \A i \in 1 .. Len(dot_text.edge_lines) : CrossBandHints(dot_text.edge_lines[i])

\* C12, amended: the same, of the runs that de-emphasize cross-level edges,
\* which main does unless --no-deemphasize-cross is given.
C12_CrossBandHintsWhenDeemphasized ==
    (DotWritten /\ args.deemphasize_cross) =>
        \A i \in 1 .. Len(dot_text.edge_lines) : CrossBandHints(dot_text.edge_lines[i])

\* A run that de-emphasizes and draws a Disabled edge two bands up with
\* constraint=false and minlen=2.
C12_Witness ==
    /\ pc = "dot_written" /\ args.deemphasize_cross
    /\ \E i \in 1 .. Len(dot_text.edge_lines) :
          LET line == dot_text.edge_lines[i]
          IN  /\ LineDelta(line) = 0 - 2 /\ LineStatus(line) = "D"
              /\ line.attrs.constraint = "false" /\ line.attrs.minlen = 2

\* The drawing of a status, from the spec: Enabled solid, Suspended dashed,
\* Disabled dotted, each with its own color and width.
DrawnByStatus(line) ==
    LET st == LineStatus(line)
    IN  /\ HasAttr(line, "style") /\ HasAttr(line, "color") /\ HasAttr(line, "penwidth")
        /\ st = "E" => line.attrs.style = "solid" /\ line.attrs.color = "#2e7d32"
                       /\ line.attrs.penwidth = "1.8"
        /\ st = "S" => line.attrs.style = "dashed" /\ line.attrs.color = "#b71c1c"
                       /\ line.attrs.penwidth = "1.2"
        /\ st = "D" => line.attrs.style = "dotted" /\ line.attrs.color = "#666666"
                       /\ line.attrs.penwidth = "1.0"

\* C13: an edge line between adjacent bands is drawn by its status alone,
\* with and without de-emphasis; without de-emphasis every edge line is drawn
\* by its status and none carries constraint=false or minlen.
C13_AdjacentBandsByStatus ==
    DotWritten =>
        \A i \in 1 .. Len(dot_text.edge_lines) :
            LET line == dot_text.edge_lines[i]
            IN  /\ Abs(LineDelta(line)) = 1 => DrawnByStatus(line)
                /\ ~args.deemphasize_cross =>
                      /\ DrawnByStatus(line)
                      /\ ~HasAttr(line, "constraint") /\ ~HasAttr(line, "minlen")

\* A run without de-emphasis that draws a Suspended edge between adjacent
\* bands dashed and a Disabled edge two bands up dotted in its own color.
C13_Witness ==
    /\ pc = "dot_written" /\ ~args.deemphasize_cross
    /\ \E i, j \in 1 .. Len(dot_text.edge_lines) :
          LET near == dot_text.edge_lines[i]
              far  == dot_text.edge_lines[j]
          IN  /\ Abs(LineDelta(near)) = 1 /\ LineStatus(near) = "S"
              /\ near.attrs.style = "dashed"
              /\ Abs(LineDelta(far)) = 2 /\ LineStatus(far) = "D"
              /\ far.attrs.color = "#666666"

\* The edges that parse_source_text finds in the source text.
DeclaredEdges == parse_source_text(source_text).edges

\* C14: every edge line of the DOT output and every edge record of the page
\* has both ends in the visited set; the declared edges with an end outside
\* are left out and the run goes on to its end.
C14_OutputEdgesWithinVisited ==
    /\ DotWritten =>
          \A i \in 1 .. Len(files["dot"].edge_lines) :
              /\ files["dot"].edge_lines[i].src \in visited
              /\ files["dot"].edge_lines[i].dst \in visited
    /\ (pc = "done" /\ "html" \in DOMAIN files) =>
          \A i \in 1 .. Len(files["html"].edges) :
              /\ files["html"].edges[i].from \in visited
              /\ files["html"].edges[i].to \in visited

\* A finished run whose source declares an edge out of the visited set into
\* the rest of the graph, and whose outputs each hold one edge.
C14_Witness ==
    /\ pc = "done" /\ "html" \in DOMAIN files
    /\ \E i \in 1 .. Len(DeclaredEdges) :
          DeclaredEdges[i].src \in visited /\ DeclaredEdges[i].dst \notin visited
    /\ Len(files["dot"].edge_lines) = 1 /\ Len(files["html"].edges) = 1

----------------------------------------------------------------------------
(* Claims about the resolution of the start node and the end of the run.   *)

\* The ids of the parsed graph: those with a label and the ends of the edges.
ParsedIds ==
    DOMAIN nodes \cup {DeclaredEdges[i].src : i \in 1 .. Len(DeclaredEdges)}
                 \cup {DeclaredEdges[i].dst : i \in 1 .. Len(DeclaredEdges)}

\* The start value is the decimal text of an id of the parsed graph.
StartIsParsedId == \E n \in ParsedIds : n >= 0 /\ strip(args.start) = str(n)

\* The start value is the label of a node, but for case and blanks around it.
StartIsLabel ==
    \E n \in DOMAIN nodes : lower(strip(nodes[n])) = lower(strip(args.start))

\* C15: resolve_start_node fails whenever the start value is neither an id
\* of the parsed graph nor, but for case and blanks, the label of a node; an
\* integer that is no id of the graph is rejected, not returned.
C15_UnknownStartRejected ==
    (pc \in {"resolved", "exit_1"} /\ ~StartIsParsedId /\ ~StartIsLabel) =>
        pc = "exit_1"

\* C16: a run that prints the resolution error ends there: no file has been
\* written and the renderer has not been called.
C16_NoOutputAfterResolutionError ==
    (\E i \in 1 .. Len(log) : log[i] = "could_not_resolve") =>
        /\ pc = "exit_1"
        /\ DOMAIN files = {}
        /\ renderer = "not_called"

\* A run given a start value that is no number and no label: it has printed
\* the error and stopped, with no file written and the renderer not called.
C16_Witness ==
    /\ pc = "exit_1" /\ args.start = <<"z">>
    /\ log = <<"could_not_resolve">>
    /\ DOMAIN files = {} /\ renderer = "not_called"

\* The renderer was asked for and did not produce an image.
RenderFailed == renderer \in {"not_found", "failed", "cannot_execute"}

\* C17: the renderer is called only once the DOT file holds the whole text,
\* and when dot is missing or fails the run prints a warning and goes on: it
\* does not end in the renderer, and it ends with the page written if a page
\* was asked for.
C17_RenderFailureKeepsOutputs ==
    /\ renderer # "not_called" => ("dot" \in DOMAIN files /\ files["dot"] = dot_text)
    /\ RenderFailed =>
          /\ pc \in {"rendered", "done"}
          /\ log[Len(log)] \in {"dot_not_found", "rendering_failed", "html_written"}
          /\ (pc = "done" /\ args.html # "") => "html" \in DOMAIN files

----------------------------------------------------------------------------
(* Claims about parse_source_text.                                         *)

\* The labels of the node declarations of id, stripped, in text order.
DeclaredLabels(id) ==
    LET ds == SelectSeq(source_text, LAMBDA d : d.kind = "node" /\ d.dst = id)
    IN  [i \in 1 .. Len(ds) |-> strip(ds[i].label)]

\* The first label of the list that is not empty; the empty label if none is.
RECURSIVE FirstNonEmpty(_)
FirstNonEmpty(ls) ==
    IF ls = <<>> THEN <<>>
    ELSE IF Head(ls) # <<>> THEN Head(ls)
    ELSE FirstNonEmpty(Tail(ls))

Parsed == pc # "read"

\* C18: the label of an id with node declarations is the first non-empty
\* label among them in text order, empty if all are empty: no later node
\* declaration and no edge declaration has a part in it.
C18_LabelFromNodeDeclarations ==
    Parsed =>
        \A d \in Range(source_text) :
            d.kind = "node" =>
                /\ d.dst \in DOMAIN nodes
                /\ nodes[d.dst] = FirstNonEmpty(DeclaredLabels(d.dst))

\* C19: every declared edge is in the edge list, and an end of it that has
\* no node declaration has no label: it is not in the mapping, or it has the
\* empty label.
C19_UndeclaredEndHasNoLabel ==
    Parsed =>
        /\ ~args.enabled_only =>
              edges = [i \in 1 .. Len(EDGE_RE(source_text)) |->
                          ParsedEdge(EDGE_RE(source_text)[i].src, EDGE_RE(source_text)[i].dst,
                                     EDGE_RE(source_text)[i].label)]
        /\ \A d \in Range(source_text) : \A id \in {d.src, d.dst} :
              (d.kind = "edge" /\ DeclaredLabels(id) = <<>>) =>
                  (id \notin DOMAIN nodes \/ nodes[id] = <<>>)

----------------------------------------------------------------------------
(* Claims about --enabled-only.                                            *)

\* The declared edges that are Enabled.
DeclaredEnabled == SelectSeq(DeclaredEdges, LAMBDA e : e.status = "E")

\* The edge from s to d is one of es.
IsEdgeOf(es, s, d) == \E i \in 1 .. Len(es) : es[i].src = s /\ es[i].dst = d

\* The nodes within k hops of the nodes of S.
RECURSIVE WithinHops(_, _, _, _, _)
WithinHops(S, k, ids, es, dir) ==
    IF k = 0 THEN S
    ELSE LET more == S \cup {v \in ids : \E u \in S : Hop(u, v, es, dir)}
         IN  IF more = S THEN S ELSE WithinHops(more, k - 1, ids, es, dir)

\* C20: under --enabled-only the adjacency maps are those of the Enabled
\* edges, every visited node is within the hop budget of start along Enabled
\* edges alone, and every edge of the DOT output and of the page is a
\* declared Enabled edge, drawn as one.
C20_EnabledOnlyBeforeTraversal ==
    (MainTraversed /\ args.enabled_only) =>
        LET enabled == DeclaredEnabled
        IN  /\ out_adj = build_adjacency(enabled).out_adj
            /\ in_adj = build_adjacency(enabled).in_adj
            /\ visited \subseteq WithinHops({start}, Max(depth, 0), GraphIds(enabled, start),
                                            enabled, direction)
            /\ DotWritten =>
                  \A i \in 1 .. Len(files["dot"].edge_lines) :
                      LET line == files["dot"].edge_lines[i]
                      IN  /\ IsEdgeOf(enabled, line.src, line.dst)
                          /\ line.attrs.style \in {"solid", "dotted"}
                          /\ line.attrs.style = "dotted" => HasAttr(line, "constraint")
            /\ (pc = "done" /\ "html" \in DOMAIN files) =>
                  \A i \in 1 .. Len(files["html"].edges) :
                      LET rec == files["html"].edges[i]
                      IN  IsEdgeOf(enabled, rec.from, rec.to) /\ rec.status = "E"

\* A finished run under --enabled-only on a text that declares an Enabled, a
\* Suspended and a Disabled edge: one node is reached and one edge is drawn.
C20_Witness ==
    /\ pc = "done" /\ args.enabled_only
    /\ \E i, j \in 1 .. Len(DeclaredEdges) :
          DeclaredEdges[i].status = "S" /\ DeclaredEdges[j].status = "D"
    /\ Cardinality(visited) = 2
    /\ Len(files["dot"].edge_lines) = 1 /\ Len(files["html"].edges) = 1

----------------------------------------------------------------------------
(* Claims about the loop of bfs_levels.                                    *)

\* The number of nodes of the graph that is traversed: the ends of its edges
\* and the start node.
NodeCount == Cardinality(GraphIds(edges, start))

\* min(max(depth, 0), number of nodes)
RoundBound == Min(Max(depth, 0), NodeCount)

InLoop == pc \in {"bfs_loop", "bfs_returned"}

\* C21: bfs_levels returns on every graph, start, direction and depth; its
\* loop never runs more than min(max(depth, 0), number of nodes) rounds; every
\* round before the last one adds a level, and a round that finds no new node
\* is the last; what is returned is what the traversal of main works with.
C21_BfsTerminates ==
    /\ <>(pc = "bfs_returned")
    /\ [](InLoop => rounds <= RoundBound)
    /\ [](pc = "bfs_loop" => rounds = Len(levels) - 1)
    /\ [](pc = "bfs_returned" =>
            /\ \/ rounds = Len(levels)
               \/ rounds = Len(levels) - 1 /\ rounds = Max(depth, 0)
            /\ \A k \in 1 .. Len(levels) : levels[k] # {}
            /\ levels = bfs_levels(start, depth, out_adj, in_adj, direction).levels
            /\ visited = bfs_levels(start, depth, out_adj, in_adj, direction).visited)

\* A traversal with the far hop budget on a cycle through three nodes: the
\* third round follows the edge back to start, finds nothing new and is the
\* last, with as many rounds run as the graph has nodes.
C21_Witness ==
    /\ pc = "bfs_returned" /\ depth = FarDepth /\ direction = "out"
    /\ Len(levels) = 3 /\ rounds = 3 /\ NodeCount = 3
    /\ \E i \in 1 .. Len(edges) : edges[i].src \in levels[3] /\ edges[i].dst = start

----------------------------------------------------------------------------
(* Claims about the display of nodes.                                      *)

\* The node line of n in the DOT file, the record of n in the page.
NodeLineOf(n) ==
    LET ls == files["dot"].node_lines
    IN  ls[CHOOSE i \in 1 .. Len(ls) : ls[i].id = n]

NodeRecordOf(n) ==
    LET rs == files["html"].nodes
    IN  rs[CHOOSE i \in 1 .. Len(rs) : rs[i].id = n]

\* n has no node declaration with a label that is not empty.
NoDeclaredLabel(n) == FirstNonEmpty(DeclaredLabels(n)) = <<>>

\* C22: in the DOT file and in the page, a visited node without a non-empty
\* declared label -- never declared, or declared with the empty label -- is
\* shown by its identifier alone.
C22_UnlabelledShownById ==
    (pc = "done" /\ "html" \in DOMAIN files) =>
        \A n \in visited :
            NoDeclaredLabel(n) =>
                /\ NodeLineOf(n).label = str(n)
                /\ NodeRecordOf(n).label = str(n)

----------------------------------------------------------------------------
(* Claims about build_adjacency.                                           *)

\* C23: v is in out_adj[u] exactly when u is in in_adj[v], exactly when the
\* list holds an edge from u to v, whatever its status; the keys of the maps
\* are the sources and the destinations; repeats of an edge add nothing.
C23_AdjacencyMirrorsEdges ==
    pc = "adjacency" =>
        /\ \A u \in MergeNodes, v \in MergeNodes :
              /\ v \in Get(out_adj, u) <=> u \in Get(in_adj, v)
              /\ v \in Get(out_adj, u) <=> IsEdgeOf(edges, u, v)
        /\ DOMAIN out_adj = {edges[i].src : i \in 1 .. Len(edges)}
        /\ DOMAIN in_adj = {edges[i].dst : i \in 1 .. Len(edges)}
        /\ \A u \in DOMAIN out_adj :
              Cardinality(out_adj[u]) = Cardinality({v \in MergeNodes : IsEdgeOf(edges, u, v)})

\* A list that holds one edge twice, Suspended and Disabled, and its reverse:
\* each of the two nodes has the other as its one successor and predecessor.
C23_Witness ==
    /\ pc = "adjacency" /\ Len(edges) = 3
    /\ edges[1].src = 0 /\ edges[1].dst = 1 /\ edges[1].status = "S"
    /\ edges[2].src = 0 /\ edges[2].dst = 1 /\ edges[2].status = "D"
    /\ edges[3].src = 1 /\ edges[3].dst = 0
    /\ out_adj[0] = {1} /\ in_adj[1] = {0} /\ out_adj[1] = {0} /\ in_adj[0] = {1}

----------------------------------------------------------------------------
(* Claims about the record the merger keeps.                               *)

\* The positions of the edges that are the first of their unordered pair.
FirstOfPair(es) ==
    {i \in 1 .. Len(es) : \A j \in 1 .. (i - 1) : Ends(es[j]) # Ends(es[i])}

\* The record without its flag.
AsParsed(m) ==
    [src |-> m.src, dst |-> m.dst, raw_label |-> m.raw_label, status |-> m.status]

\* C24: the merged list is the list of the edges that are the first of their
\* unordered pair, in input order, each with its own src, dst, raw label and
\* status; the later edges of a pair have no part in the record but its flag.
C24_FirstEdgeOfPairKept ==
    pc = "merged" =>
        LET firsts == sorted(FirstOfPair(edges))
        IN  /\ Len(merged) = Len(firsts)
            /\ \A k \in 1 .. Len(merged) : AsParsed(merged[k]) = edges[firsts[k]]

\* A Suspended edge from 2 to 1, an edge of another pair, then the Enabled
\* edge from 1 to 2: the record of the pair is the Suspended edge from 2 to
\* 1, flagged, and it comes first.
C24_Witness ==
    /\ pc = "merged" /\ Len(edges) = 3 /\ Len(merged) = 2
    /\ edges[1].src = 2 /\ edges[1].dst = 1 /\ edges[1].status = "S"
    /\ edges[3].src = 1 /\ edges[3].dst = 2 /\ edges[3].status = "E"
    /\ merged[1].src = 2 /\ merged[1].dst = 1 /\ merged[1].status = "S"
    /\ merged[1].raw_label = edges[1].raw_label /\ merged[1].bidirectional
    /\ AsParsed(merged[2]) = edges[2]

----------------------------------------------------------------------------
(* Claims about the edge records of the page.                              *)

PageWritten == pc = "done" /\ "html" \in DOMAIN files

\* The look of a status in the page: color, width, dash pattern.
PageLook(st) ==
    CASE st = "E" -> <<"#81c784", "0.6", <<>>>>
      [] st = "S" -> <<"#e57373", "0.5", <<5, 5>>>>
      [] OTHER    -> <<"#999999", "0.4", <<2, 3>>>>

\* C25: the page has one edge record for every merged edge, in their order;
\* a record has the arrows "to,from" exactly when the merged edge is flagged
\* bidirectional and the arrow "to" otherwise; its color, width and dash
\* pattern are those of its status, whatever its flag and its ends; the ids
\* of the records are 0, 1, 2, ... in output order.
C25_PageEdgeRecords ==
    PageWritten =>
        LET recs == files["html"].edges
        IN  /\ Len(recs) = Len(merged)
            /\ \A i \in 1 .. Len(recs) :
                  /\ recs[i].id = i - 1
                  /\ recs[i].from = merged[i].src /\ recs[i].to = merged[i].dst
                  /\ recs[i].status = merged[i].status
                  /\ recs[i].arrows = (IF merged[i].bidirectional THEN "to,from" ELSE "to")
                  /\ <<recs[i].color, recs[i].width, recs[i].dashes>> = PageLook(recs[i].status)

\* A page with three edge records: a Suspended one with both arrows, dashed,
\* and a Disabled one with one arrow.
C25_Witness ==
    /\ PageWritten /\ Len(files["html"].edges) = 3
    /\ \E i, j \in 1 .. 3 :
          LET two == files["html"].edges[i]
              one == files["html"].edges[j]
          IN  /\ two.arrows = "to,from" /\ two.status = "S" /\ two.dashes = <<5, 5>>
              /\ merged[i].bidirectional
              /\ one.arrows = "to" /\ one.status = "D" /\ one.color = "#999999"
              /\ ~merged[j].bidirectional

----------------------------------------------------------------------------
(* Claims about the order of the filter and the merger.                    *)

\* C26: merging the edges that have both ends in the visited set gives the
\* list -- records, flags and order -- that is left of the merged full list
\* once the merged edges with an end outside the visited set are dropped.
C26_MergeCommutesWithFilter ==
    pc = "neighborhood" =>
        merged = SelectSeq(merge_bidirectional_edges(edges),
                           LAMBDA e : Included(e, visited))

\* Three edges: a pair in both orientations inside the visited set, which is
\* kept as one flagged edge, and an edge that leaves the visited set, which
\* is dropped.
C26_Witness ==
    /\ pc = "neighborhood" /\ Len(edges) = 3 /\ Len(merged) = 1
    /\ merged[1].bidirectional /\ merged[1].src # merged[1].dst
    /\ \E i \in 1 .. 3 : edges[i].src \in visited /\ edges[i].dst \notin visited
    /\ Len(merge_bidirectional_edges(edges)) = 2

----------------------------------------------------------------------------
(* Claims about the bands of a traversal in both directions and about the  *)
(* second partition, the one of export_html.                               *)

\* No level of bfs_levels holds more nodes than main's cap: no level is cut.
NoLevelSplit == \A k \in 1 .. Len(levels) : Cardinality(levels[k]) <= MainCap

\* C27: in a traversal with direction both in which no level is larger than
\* the cap, the ends of every edge between two visited nodes are in the same
\* band or in adjacent bands, and no edge line of the DOT file has minlen; an
\* edge across more than one band needs direction out or in, or a cut level.
C27_BothDirectionsAdjacentBands ==
    (MainTraversed /\ direction = "both" /\ NoLevelSplit) =>
        /\ \A i \in 1 .. Len(edges) :
              (edges[i].src \in visited /\ edges[i].dst \in visited) =>
                  Abs(node_levels[edges[i].dst] - node_levels[edges[i].src]) <= 1
        /\ DotWritten =>
              \A i \in 1 .. Len(files["dot"].edge_lines) :
                  ~HasAttr(files["dot"].edge_lines[i], "minlen")

\* A cycle through three nodes traversed in both directions, drawn with
\* de-emphasis: two levels, an edge within the second band and an edge from
\* it back to start, none with minlen.
C27_Witness ==
    /\ pc = "dot_written" /\ direction = "both" /\ args.deemphasize_cross
    /\ Len(levels) = 2 /\ Cardinality(visited) = 3
    /\ Len(dot_text.edge_lines) = 3
    /\ \E i, j \in 1 .. 3 :
          /\ LineDelta(dot_text.edge_lines[i]) = 0
          /\ LineDelta(dot_text.edge_lines[j]) = 0 - 1
          /\ dot_text.edge_lines[j].dst = start
    /\ \A i \in 1 .. 3 : ~HasAttr(dot_text.edge_lines[i], "minlen")

\* C28: the partition of export_html, with its cap of 30, leaves the bands of
\* main as they are -- the same bands in the same order and the same band of
\* every node -- and the level of every visited node in the page is the band
\* index that generate_dot works with.
C28_SecondPartitionIsNoOp ==
    /\ MainTraversed =>
          /\ split_levels(new_levels, HtmlCap).new_levels = new_levels
          /\ split_levels(new_levels, HtmlCap).node_levels = node_levels
    /\ PageWritten =>
          /\ {files["html"].nodes[i].id : i \in 1 .. Len(files["html"].nodes)} = visited
          /\ \A n \in visited :
                /\ NodeRecordOf(n).level = level_index_of(new_levels)[n]
                /\ NodeRecordOf(n).level = node_levels[n]

\* A page of a fan of 21 leaves: main has cut the second level into a band
\* of 20 and a band of one, and the page has 20 nodes at level 1 and one at
\* level 2.
C28_Witness ==
    /\ PageWritten /\ Len(levels) = 2 /\ Len(new_levels) = 3
    /\ Cardinality(new_levels[2]) = MainCap
    /\ Cardinality({i \in 1 .. Len(files["html"].nodes) :
                        files["html"].nodes[i].level = 1}) = MainCap
    /\ \E i \in 1 .. Len(files["html"].nodes) : files["html"].nodes[i].level = 2

====
